---- MODULE Spec2Model ----
(***************************************************************************)
(* Model of src/src/heat.c: the explicit Forward-Euler solver of the 1-D   *)
(* periodic heat equation, serial (heat_serial) and distributed over an    *)
(* MPI ring (heat_parallel).                                               *)
(*                                                                         *)
(* One behaviour is one call: either heat_serial on the whole grid, or     *)
(* heat_parallel called by every rank of the communicator on its slice.    *)
(* Field values are exact rationals <<numerator, denominator>>; with dx a  *)
(* power of two and small integer data every value is a dyadic rational,   *)
(* which IEEE doubles represent exactly, so on those inputs the model      *)
(* computes what the C code computes.                                      *)
(***************************************************************************)
EXTENDS Integers, Sequences, FiniteSets, TLC

(***************************************************************************)
(* Bounds of the model.                                                    *)
(***************************************************************************)
MaxP == 3        \* ranks in the communicator: 1..MaxP
MaxNx == 3       \* grid points per rank: 2..MaxNx
MaxN == 9        \* grid points in all: size*Nx <= MaxN
MaxNt == 2       \* time steps: 0..MaxNt
MaxDx == 2       \* dx in 1..MaxDx, with dt = 1: nu = 1, 1/4, ...
MaxVal == 1      \* amplitude of the impulse initial fields: 1..MaxVal

(***************************************************************************)
(* Exact rational arithmetic standing for the C doubles.                   *)
(***************************************************************************)
Abs(n) == IF n < 0 THEN -n ELSE n

RECURSIVE Gcd(_, _)
Gcd(a, b) == IF b = 0 THEN a ELSE Gcd(b, a % b)

Norm(n, d) ==
    LET g == Gcd(Abs(n), d)
    IN  IF n = 0 THEN <<0, 1>> ELSE <<n \div g, d \div g>>

Rat(n) == <<n, 1>>
RAdd(x, y) == Norm(x[1] * y[2] + y[1] * x[2], x[2] * y[2])
RSub(x, y) == Norm(x[1] * y[2] - y[1] * x[2], x[2] * y[2])
RMul(x, y) == Norm(x[1] * y[1], x[2] * y[2])
\* x / y for y > 0
RDiv(x, y) == Norm(x[1] * y[2], x[2] * y[1])

\* content of memory that malloc returned and nothing has written yet
Uninit == <<0, 0>>

\* values an indeterminate read (uninitialised or out-of-bounds memory) may give
Garbage == {Rat(0), Rat(7)}

(***************************************************************************)
(* Arithmetic of the kernels.                                              *)
(***************************************************************************)
\* size_t arithmetic wraps; the width is shortened to what TLC's integers hold
SizeMod == 2^16
SizeT(n) == n % SizeMod

\* buf[i] = v; a store outside the buffer does not land in it
Store(buf, i, v) == IF i \in DOMAIN buf THEN [buf EXCEPT ![i] = v] ELSE buf

\* double nu = dt/(dx*dx);
nu_of(dx, dt) == RDiv(Rat(dt), Rat(dx * dx))

\* a constant source added to every update: c + nu*(l - 2*c + r) + 1
Stencil_Source(c, l, r, nu) ==
    RAdd(RAdd(c, RMul(nu, RAdd(RSub(l, RMul(Rat(2), c)), r))), Rat(1))

\* the centre weighted once instead of twice: c + nu*(l - c + r)
Stencil_WrongWeight(c, l, r, nu) ==
    RAdd(c, RMul(nu, RAdd(RSub(l, c), r)))

\* c + nu*(l - 2*c + r), evaluated in the order the C expression has:
\* t = 2*c, d = l - t, q = d + r, p = nu*q, c + p (each bound once)
Stencil(c, l, r, nu) ==
    CHOOSE v \in {RAdd(cv, p) : cv \in {c}, p \in
              {RMul(nu, q) : q \in
                {RAdd(d, r) : d \in
                  {RSub(l, t) : t \in {RMul(Rat(2), c)}}}}} : TRUE

\* for (i=0; i<length; ++i) toarray[i] = fromarray[i];
array_copy(toarray, fromarray, length) ==
    [i \in DOMAIN toarray |->
        IF i < length THEN fromarray[i] ELSE toarray[i]]

\* for (i=1; i<(Nx-1); ++i) next[i] = cur[i] + nu*(cur[i-1] - 2*cur[i] + cur[i+1]);
InteriorUpdate(next, cur, nu, Nx) ==
    [i \in DOMAIN next |->
        IF 1 <= i /\ i < SizeT(Nx - 1)
        THEN Stencil(cur[i], cur[i-1], cur[i+1], nu)
        ELSE next[i]]

\* utp1[0] = ut[0] + nu*(ut[Nx-1] - 2*ut[0] + ut[1]);
SerialEdge0(next, cur, nu, Nx) ==
    Store(next, 0, Stencil(cur[0], cur[SizeT(Nx-1)], cur[1], nu))

\* the right edge without the periodic wrap: its right neighbour is itself
SerialEdgeN_NoWrap(next, cur, nu, Nx) ==
    Store(next, SizeT(Nx-1),
          Stencil(cur[SizeT(Nx-1)], cur[SizeT(Nx-2)], cur[SizeT(Nx-1)], nu))

\* utp1[Nx-1] = ut[Nx-1] + nu*(ut[Nx-2] - 2*ut[Nx-1] + ut[0]);
SerialEdgeN(next, cur, nu, Nx) ==
    Store(next, SizeT(Nx-1),
          Stencil(cur[SizeT(Nx-1)], cur[SizeT(Nx-2)], cur[0], nu))

\* uktp1[Nx-1] = ukt[Nx-1] + nu*(ukt[Nx-2] - 2*ukt[Nx-1] + right_ghost[1]);
ParallelEdgeN(next, cur, ghost, nu, Nx) ==
    Store(next, SizeT(Nx-1),
          Stencil(cur[SizeT(Nx-1)], cur[SizeT(Nx-2)], ghost, nu))

\* the left edge closed on the rank's own slice, as heat_serial does,
\* instead of with the ghost received from the left neighbour
ParallelEdge0_LocalWrap(next, cur, ghost, nu, Nx) ==
    Store(next, 0, Stencil(cur[0], cur[SizeT(Nx-1)], cur[1], nu))

\* uktp1[0] = ukt[0] + nu*(left_ghost[1] - 2*ukt[0] + ukt[1]);
ParallelEdge0(next, cur, ghost, nu, Nx) ==
    Store(next, 0, Stencil(cur[0], ghost, cur[1], nu))

\* the loop test off by one: for (step=0; step<=Nt; ++step)
LoopRuns_OffByOne(step, Nt) == step <= Nt

\* for (step=0; step<Nt; ++step): the loop test
LoopRuns(step, Nt) == step < Nt

(***************************************************************************)
(* heat_serial as a function of its arguments: the two scratch buffers     *)
(* are carried along and exchanged after each step.                        *)
(***************************************************************************)
RECURSIVE SerialLoop(_, _, _, _, _)
SerialLoop(ut, utp1, nu, Nx, steps) ==
    IF steps = 0 THEN ut
    ELSE SerialLoop(
            SerialEdgeN(SerialEdge0(InteriorUpdate(utp1, ut, nu, Nx), ut, nu, Nx),
                        ut, nu, Nx),
            ut, nu, Nx, steps - 1)

heat_serial(u, dx, Nx, dt, Nt) ==
    LET fresh == [i \in 0..(Nx-1) |-> Uninit]
    IN  array_copy(u, SerialLoop(array_copy(fresh, u, Nx), fresh,
                                 nu_of(dx, dt), Nx, Nt), Nx)

(***************************************************************************)
(* State.                                                                  *)
(***************************************************************************)
VARIABLES
    args,         \* the call: [kernel, size, Nx, Nt, dx, dt]
    env,          \* the environment: [failAlloc, failRank, errh, eager]
    U,            \* the global initial field, index 0 .. size*Nx-1
    operands,     \* [a, b, f, g]: scalars and fields with U = a*f + b*g
    u,            \* u[r]: the caller's buffer (u of heat_serial, uk of heat_parallel)
    mem,          \* mem[r][h]: the scratch allocation with handle h of rank r
    ut,           \* ut[r]: handle held by ut (ukt in heat_parallel); 0 is NULL
    utp1,         \* utp1[r]: handle held by utp1 (uktp1 in heat_parallel)
    left_ghost,   \* left_ghost[r][0]: staged sample sent left, [1]: ghost received
    right_ghost,  \* right_ghost[r][0]: staged sample sent right, [1]: ghost received
    req_left,     \* req_left[r]: state of the request of the left-directed send
    req_right,    \* req_right[r]: state of the request of the right-directed send
    chan,         \* chan[<<s, d>>]: messages posted by s to d and not yet received
    pc,           \* pc[r]: the statement rank r executes next
    step,         \* step[r]: the loop counter
    obs           \* obs[r]: what an observer of rank r has recorded so far

inputs == <<args, env, U, operands>>
vars == <<args, env, U, operands, u, mem, ut, utp1, left_ghost, right_ghost,
          req_left, req_right, chan, pc, step, obs>>

Ranks == 0 .. (args.size - 1)
Nx == args.Nx
Nt == args.Nt
nu == nu_of(args.dx, args.dt)

\* int left_proc = (rank-1+size) % size;
left_proc(rank, size) == (rank - 1 + size) % size
\* the right neighbour computed as the left one is
right_proc_AsLeft(rank, size) == (rank - 1 + size) % size

\* int right_proc = (rank+1) % size;
right_proc(rank, size) == (rank + 1) % size

(***************************************************************************)
(* Inputs.                                                                 *)
(***************************************************************************)
\* U[i] = (i+1)^2: pairwise distinct values, non-zero second difference
Squares(N) == [i \in 0..(N-1) |-> Rat((i + 1) * (i + 1))]
\* a single cell of amplitude a at index j
Impulse(N, j, a) == [i \in 0..(N-1) |-> IF i = j THEN Rat(a) ELSE Rat(0)]
Impulses(N) == {Impulse(N, j, a) : j \in 0..(N-1), a \in 1..MaxVal}

\* every cell holds c
Constant(N, c) == [i \in 0..(N-1) |-> Rat(c)]

\* the slice of rank r: Nx contiguous points, in rank order
Slice(field, r, n) == [i \in 0..(n-1) |-> field[r * n + i]]

\* malloc succeeds; MPI calls succeed; the library sends one-double messages
\* either eagerly or by rendezvous
NoFailure(eager) ==
    [failAlloc |-> 0, failRank |-> 0, errh |-> "fatal", eager |-> eager]

\* heat_parallel is called by every rank of comm, each with Nx points
ParallelCalls(nxs, dxs, dts) ==
    {a \in [kernel : {"parallel"}, size : 1..MaxP, Nx : nxs, Nt : 0..MaxNt,
            dx : dxs, dt : dts] : a.size * a.Nx <= MaxN}

\* heat_serial is called once, with the whole grid
SerialCalls(nxs, dxs, dts) ==
    [kernel : {"serial"}, size : {1}, Nx : nxs, Nt : 0..MaxNt, dx : dxs, dt : dts]

\* a*f + b*g, cell by cell
Combine(a, f, b, g) ==
    [i \in DOMAIN f |-> RAdd(RMul(Rat(a), f[i]), RMul(Rat(b), g[i]))]

\* the state on entry; the caller formed the field as ops.a*ops.f + ops.b*ops.g
InitOperands(a, e, field, ops) ==
    /\ args = a
    /\ env = e
    /\ U = field
    /\ operands = ops
    /\ u = [r \in 0..(a.size-1) |-> Slice(field, r, a.Nx)]
    /\ mem = [r \in 0..(a.size-1) |->
                [h \in 1..2 |-> [st |-> "unalloc", data |-> <<>>, nfree |-> 0]]]
    /\ ut = [r \in 0..(a.size-1) |-> 0]
    /\ utp1 = [r \in 0..(a.size-1) |-> 0]
    /\ left_ghost = [r \in 0..(a.size-1) |-> [k \in 0..1 |-> Uninit]]
    /\ right_ghost = [r \in 0..(a.size-1) |-> [k \in 0..1 |-> Uninit]]
    /\ req_left = [r \in 0..(a.size-1) |-> "null"]
    /\ req_right = [r \in 0..(a.size-1) |-> "null"]
    /\ chan = [p \in (0..(a.size-1)) \X (0..(a.size-1)) |-> <<>>]
    /\ pc = [r \in 0..(a.size-1) |-> "alloc"]
    /\ step = [r \in 0..(a.size-1) |-> 0]
    /\ obs = [r \in 0..(a.size-1) |->
                [nsend |-> [left |-> 0, right |-> 0], nrecv |-> 0, nwait |-> 0,
                 wslot |-> [left |-> 0, right |-> 0],
                 sampL |-> <<>>, sampR |-> <<>>, rcvL |-> <<>>, rcvR |-> <<>>,
                 closed |-> 0, fault |-> {}, mpifail |-> 0, err |-> "none",
                 wrote |-> [i \in 0..(a.Nx-1) |-> 0]]]

\* the state on entry with a field the caller took as it is
InitState(a, e, field) ==
    InitOperands(a, e, field, [a |-> 1, b |-> 0, f |-> field, g |-> field])

\* valid geometry, memory available, reliable transport
InitParallel ==
    \E a \in ParallelCalls(2..MaxNx, 1..MaxDx, {1}), eager \in BOOLEAN :
        InitState(a, NoFailure(eager), Squares(a.size * a.Nx))

InitSerial ==
    \E a \in SerialCalls(2..MaxN, 1..MaxDx, {1}) :
        \E field \in {Squares(a.Nx)} \cup Impulses(a.Nx) :
            InitState(a, NoFailure(FALSE), field)

Init == InitParallel \/ InitSerial

\* valid calls on a field that is constant over the whole grid
InitConstant ==
    \E a \in ParallelCalls(2..MaxNx, 1..MaxDx, {1})
              \cup SerialCalls(2..MaxN, 1..MaxDx, {1}) :
        \E c \in {-MaxVal, MaxVal + 1}, eager \in BOOLEAN :
            /\ a.kernel = "serial" => ~eager
            /\ InitState(a, NoFailure(eager), Constant(a.size * a.Nx, c))

\* valid calls of heat_serial on a linear combination of two fields
InitLinear ==
    \E a \in SerialCalls(2..MaxNx, 1..MaxDx, {1}) :
        \E f \in {Squares(a.Nx)} \cup Impulses(a.Nx),
           g \in {Squares(a.Nx)} \cup Impulses(a.Nx),
           al \in (-MaxVal)..(MaxVal + 1), be \in (-MaxVal)..(MaxVal + 1) :
            InitOperands(a, NoFailure(FALSE), Combine(al, f, be, g),
                         [a |-> al, b |-> be, f |-> f, g |-> g])

\* valid calls of heat_parallel on two points per rank that run one step
\* longer: Nt in 1..MaxNt+1
InitLong ==
    \E a \in ParallelCalls({2}, {1}, {1}), eager \in BOOLEAN :
        InitState([a EXCEPT !.Nt = @ + 1], NoFailure(eager),
                  Squares(a.size * a.Nx))

\* calls with Nx < 2, or with a step size that is not positive
InitGeometry ==
    \E a \in ParallelCalls(0..1, 1..MaxDx, {1})
              \cup ParallelCalls(2..MaxNx, {-1}, {1})
              \cup ParallelCalls(2..MaxNx, {1}, {-1, 0})
              \cup SerialCalls(0..1, 1..MaxDx, {1})
              \cup SerialCalls(2..MaxNx, {-1}, {1})
              \cup SerialCalls(2..MaxNx, {1}, {-1, 0}) :
        /\ a.size <= 2
        /\ InitState(a, NoFailure(FALSE), Squares(a.size * a.Nx))

\* valid calls in which malloc may return NULL: on rank failRank the first
\* (failAlloc 1), the second (2) or both (3) of the two calls fail
InitAlloc ==
    \E a \in ParallelCalls(2..MaxNx, {1}, {1}) \cup SerialCalls(2..MaxNx, {1}, {1}) :
        \E fa \in 0..3, fr \in 0..(a.size - 1) :
            InitState(a, [NoFailure(FALSE) EXCEPT !.failAlloc = fa, !.failRank = fr],
                      Squares(a.size * a.Nx))

\* valid calls of heat_parallel on a communicator whose error handler either
\* aborts the job (MPI_ERRORS_ARE_FATAL) or makes the call return an error code
InitTransport ==
    \E a \in ParallelCalls({2}, {1}, {1}), h \in {"fatal", "return"} :
        /\ a.size <= 2
        /\ InitState(a, [NoFailure(FALSE) EXCEPT !.errh = h], Squares(a.size * a.Nx))

(***************************************************************************)
(* Memory accesses.  An access through NULL traps.  A load from outside    *)
(* the allocation, or of a cell nothing has written, gives an arbitrary     *)
(* value; a store outside the allocation does not land in it; either may   *)
(* also trap.                                                              *)
(***************************************************************************)
InBounds(i) == i \in 0..(Nx - 1)

\* the cells a statement may name: 0, 1, Nx-2, Nx-1 (as size_t) and the buffer
Cells == (0..(Nx - 1)) \cup {0, 1, SizeT(Nx - 1), SizeT(Nx - 2)}

Indeterminate(r, h, i) == ~InBounds(i) \/ mem[r][h].data[i] = Uninit

\* the buffer behind handle h as the statements of rank r read it
View(r, h, g) ==
    [i \in Cells |-> IF Indeterminate(r, h, i) THEN g ELSE mem[r][h].data[i]]

ReadFaults(r, h, idx) ==
    (IF \E i \in idx : ~InBounds(i) THEN {"oob_read"} ELSE {})
    \cup (IF \E i \in idx : InBounds(i) /\ mem[r][h].data[i] = Uninit
          THEN {"uninit_read"} ELSE {})

WriteFaults(idx) == IF \E i \in idx : ~InBounds(i) THEN {"oob_write"} ELSE {}

GarbageIf(faults) == IF faults = {} THEN {Rat(0)} ELSE Garbage
MayTrap(faults) == IF faults = {} THEN {FALSE} ELSE BOOLEAN

\* the cells of `next` a statement stores to: those that a buffer nothing
\* has been written to shows written after the statement's update
Blank == [i \in 0..(Nx - 1) |-> Uninit]
Touched(buf) == {i \in DOMAIN buf : buf[i] # Uninit}

\* the stores of a statement carried out on buffer `old`
Overlay(old, stores) ==
    [i \in DOMAIN old |-> IF stores[i] # Uninit THEN stores[i] ELSE old[i]]

\* the stores into `next` counted cell by cell since the last rotation
Tally(w, idx) == [i \in DOMAIN w |-> w[i] + (IF i \in idx THEN 1 ELSE 0)]
NoStores(w) == [i \in DOMAIN w |-> 0]

\* dereferencing NULL: the process dies
Crash(r) ==
    /\ pc' = [pc EXCEPT ![r] = "crashed"]
    /\ obs' = [obs EXCEPT ![r].fault = @ \cup {"null"}]
    /\ UNCHANGED <<inputs, u, mem, ut, utp1, left_ghost, right_ghost,
                   req_left, req_right, chan, step>>

\* the statement after the loop test, entered from `body` when the loop runs
LoopEntry(s, body) == IF LoopRuns(s, Nt) THEN body ELSE "copy_out"

\* does the interior loop run at all: for (i=1; i<(Nx-1); ++i)
InteriorRuns == 1 < SizeT(Nx - 1)

(***************************************************************************)
(* Statements common to both kernels.                                      *)
(***************************************************************************)
\* one allocation only, named by both pointers: the update runs in place
Malloc_OneBuffer(r) ==
    /\ pc[r] = "alloc"
    /\ ut' = [ut EXCEPT ![r] = 1]
    /\ utp1' = [utp1 EXCEPT ![r] = 1]
    /\ mem' = [mem EXCEPT ![r][1] =
                 [st |-> "live", data |-> [i \in 0..(Nx-1) |-> Uninit], nfree |-> 0]]
    /\ pc' = [pc EXCEPT ![r] = "copy_in"]
    /\ UNCHANGED <<inputs, u, left_ghost, right_ghost, req_left, req_right,
                   chan, step, obs>>

\* double* ut = malloc(Nx * sizeof(double)); double* utp1 = malloc(...);
Malloc(r) ==
    /\ pc[r] = "alloc"
    /\ LET ok1 == ~(r = env.failRank /\ env.failAlloc \in {1, 3})
           ok2 == ~(r = env.failRank /\ env.failAlloc \in {2, 3})
           fresh == [st |-> "live", data |-> [i \in 0..(Nx-1) |-> Uninit],
                     nfree |-> 0]
       IN  /\ ut' = [ut EXCEPT ![r] = IF ok1 THEN 1 ELSE 0]
           /\ utp1' = [utp1 EXCEPT ![r] = IF ok2 THEN 2 ELSE 0]
           /\ mem' = [mem EXCEPT ![r] =
                        [h \in 1..2 |->
                            IF (h = 1 /\ ok1) \/ (h = 2 /\ ok2) THEN fresh ELSE @[h]]]
    /\ pc' = [pc EXCEPT ![r] = "copy_in"]
    /\ UNCHANGED <<inputs, u, left_ghost, right_ghost, req_left, req_right,
                   chan, step, obs>>

\* array_copy(ut, u, Nx);
CopyIn(r, body) ==
    /\ pc[r] = "copy_in"
    /\ IF Nx > 0 /\ ut[r] = 0 THEN Crash(r)
       ELSE /\ mem' = IF Nx > 0
                      THEN [mem EXCEPT ![r][ut[r]].data = array_copy(@, u[r], Nx)]
                      ELSE mem
            /\ pc' = [pc EXCEPT ![r] = LoopEntry(step[r], body)]
            /\ UNCHANGED <<inputs, u, ut, utp1, left_ghost, right_ghost,
                           req_left, req_right, chan, step, obs>>

\* for (i=1; i<(Nx-1); ++i) utp1[i] = ut[i] + nu*(ut[i-1] - 2*ut[i] + ut[i+1]);
Interior(r, next) ==
    /\ pc[r] = "interior"
    /\ IF InteriorRuns /\ (ut[r] = 0 \/ utp1[r] = 0) THEN Crash(r)
       ELSE IF InteriorRuns /\ ~InBounds(SizeT(Nx - 1))
       THEN \* Nx = 0: the bound wraps and the loop walks off both buffers
            /\ pc' = [pc EXCEPT ![r] = "crashed"]
            /\ obs' = [obs EXCEPT ![r].fault = @ \cup {"oob_read", "oob_write"}]
            /\ UNCHANGED <<inputs, u, mem, ut, utp1, left_ghost, right_ghost,
                           req_left, req_right, chan, step>>
       ELSE /\ IF InteriorRuns
               THEN \E stores \in {InteriorUpdate(Blank, mem[r][ut[r]].data, nu, Nx)} :
                      /\ mem' = [mem EXCEPT ![r][utp1[r]].data = Overlay(@, stores)]
                      /\ obs' = [obs EXCEPT ![r].wrote = Tally(@, Touched(stores))]
               ELSE UNCHANGED <<mem, obs>>
            /\ pc' = [pc EXCEPT ![r] = next]
            /\ UNCHANGED <<inputs, u, ut, utp1, left_ghost, right_ghost,
                           req_left, req_right, chan, step>>

\* the rotation left out: both pointers keep their buffers
Swap_Missing(r) ==
    /\ ut' = ut
    /\ utp1' = utp1

\* temp = ut; ut = utp1; utp1 = temp;
Swap(r) ==
    /\ ut' = [ut EXCEPT ![r] = utp1[r]]
    /\ utp1' = [utp1 EXCEPT ![r] = ut[r]]

\* array_copy(u, ut, Nx);
CopyOut(r) ==
    /\ pc[r] = "copy_out"
    /\ IF Nx > 0 /\ ut[r] = 0 THEN Crash(r)
       ELSE LET faults == IF Nx > 0 THEN ReadFaults(r, ut[r], 0..(Nx-1)) ELSE {}
            IN  \E g \in GarbageIf(faults) :
                  /\ u' = IF Nx > 0
                          THEN [u EXCEPT ![r] = array_copy(@, View(r, ut[r], g), Nx)]
                          ELSE u
                  /\ obs' = [obs EXCEPT ![r].fault = @ \cup faults]
                  /\ pc' = [pc EXCEPT ![r] = "free"]
                  /\ UNCHANGED <<inputs, mem, ut, utp1, left_ghost, right_ghost,
                                 req_left, req_right, chan, step>>

\* free(ut); free(ut);  the buffer `current` released twice, `next` never
Free_CurrentTwice(r) ==
    /\ pc[r] = "free"
    /\ mem' = [mem EXCEPT ![r][ut[r]] = [@ EXCEPT !.st = "freed", !.nfree = @ + 2]]
    /\ pc' = [pc EXCEPT ![r] = "done"]
    /\ UNCHANGED <<inputs, u, ut, utp1, left_ghost, right_ghost, req_left,
                   req_right, chan, step, obs>>

\* free(ut); free(utp1);  (free(NULL) does nothing)
Free(r) ==
    /\ pc[r] = "free"
    /\ mem' = [mem EXCEPT ![r] =
                 [h \in 1..2 |->
                     IF h \in {ut[r], utp1[r]}
                     THEN [@[h] EXCEPT !.st = "freed",
                                       !.nfree = @ + (IF ut[r] = h THEN 1 ELSE 0)
                                                   + (IF utp1[r] = h THEN 1 ELSE 0)]
                     ELSE @[h]]]
    /\ pc' = [pc EXCEPT ![r] = "done"]
    /\ UNCHANGED <<inputs, u, ut, utp1, left_ghost, right_ghost, req_left,
                   req_right, chan, step, obs>>

(***************************************************************************)
(* heat_serial, statement by statement (the only "rank" is 0).             *)
(***************************************************************************)
SerialMalloc == args.kernel = "serial" /\ Malloc(0)

SerialCopyIn == args.kernel = "serial" /\ CopyIn(0, "interior")

SerialInterior == args.kernel = "serial" /\ Interior(0, "edge0")

\* one of the two periodic edge statements: `update` is SerialEdge0 or SerialEdgeN
SerialEdgeStmt(at, next, reads, writes, update(_, _, _, _)) ==
    /\ args.kernel = "serial"
    /\ pc[0] = at
    /\ IF ut[0] = 0 \/ utp1[0] = 0 THEN Crash(0)
       ELSE LET faults == ReadFaults(0, ut[0], reads) \cup WriteFaults(writes)
            IN  \E g \in GarbageIf(faults), trap \in MayTrap(faults) :
                \E stores \in {update(Blank, View(0, ut[0], g), nu, Nx)} :
                  /\ mem' = [mem EXCEPT ![0][utp1[0]].data = Overlay(@, stores)]
                  /\ obs' = [obs EXCEPT ![0].fault = @ \cup faults,
                                        ![0].wrote = Tally(@, Touched(stores))]
                  /\ pc' = [pc EXCEPT ![0] = IF trap THEN "crashed" ELSE next]
                  /\ UNCHANGED <<inputs, u, ut, utp1, left_ghost, right_ghost,
                                 req_left, req_right, chan, step>>

\* utp1[0] = ut[0] + nu*(ut[Nx-1] - 2*ut[0] + ut[1]);
SerialEdgeLeft ==
    SerialEdgeStmt("edge0", "edgeN", {0, SizeT(Nx-1), 1}, {0}, SerialEdge0)

\* utp1[Nx-1] = ut[Nx-1] + nu*(ut[Nx-2] - 2*ut[Nx-1] + ut[0]);
SerialEdgeRight ==
    SerialEdgeStmt("edgeN", "rotate", {SizeT(Nx-1), SizeT(Nx-2), 0},
                   {SizeT(Nx-1)}, SerialEdgeN)

\* temp = ut; ut = utp1; utp1 = temp;  then ++step and the loop test
SerialSwap ==
    /\ args.kernel = "serial"
    /\ pc[0] = "rotate"
    /\ Swap(0)
    /\ step' = [step EXCEPT ![0] = @ + 1]
    /\ obs' = [obs EXCEPT ![0].wrote = NoStores(@)]
    /\ pc' = [pc EXCEPT ![0] = LoopEntry(step[0] + 1, "interior")]
    /\ UNCHANGED <<inputs, u, mem, left_ghost, right_ghost, req_left, req_right,
                   chan>>

SerialCopyOut == args.kernel = "serial" /\ CopyOut(0)

SerialFree == args.kernel = "serial" /\ Free(0)

(***************************************************************************)
(* heat_parallel, statement by statement, for rank r.                      *)
(*                                                                         *)
(* Transport: messages between one pair of ranks on one communicator with  *)
(* one tag are matched in the order they were posted.  A non-blocking send *)
(* either copies its buffer at once (eager: the request is complete when   *)
(* MPI_Isend returns) or leaves the data in the buffer until the matching  *)
(* receive reads it (rendezvous: the request completes with that receive). *)
(* All messages here have one size, so the library treats them alike:      *)
(* env.eager says which.  Eager leaves every MPI_Wait enabled, so it       *)
(* allows every order of statements a mix of the two would allow;          *)
(* rendezvous blocks the most and reads the staging slot the latest.       *)
(***************************************************************************)
ParallelMalloc(r) == args.kernel = "parallel" /\ Malloc(r)

ParallelCopyIn(r) == args.kernel = "parallel" /\ CopyIn(r, "sample")

\* left_ghost[0] = ukt[0]; right_ghost[0] = ukt[Nx-1];
Sample(r) ==
    /\ args.kernel = "parallel"
    /\ pc[r] = "sample"
    /\ IF ut[r] = 0 THEN Crash(r)
       ELSE LET faults == ReadFaults(r, ut[r], {0, SizeT(Nx-1)})
            IN  \E g \in GarbageIf(faults), trap \in MayTrap(faults) :
                  LET cur == View(r, ut[r], g)
                  IN  /\ left_ghost' = [left_ghost EXCEPT ![r][0] = cur[0]]
                      /\ right_ghost' =
                            [right_ghost EXCEPT ![r][0] = cur[SizeT(Nx-1)]]
                      /\ obs' = [obs EXCEPT
                                   ![r].fault = @ \cup faults,
                                   ![r].wslot.left = @ + 1,
                                   ![r].wslot.right = @ + 1,
                                   ![r].sampL = Append(@, cur[0]),
                                   ![r].sampR = Append(@, cur[SizeT(Nx-1)])]
                      /\ pc' = [pc EXCEPT ![r] =
                                  IF trap THEN "crashed" ELSE "isend_left"]
                      /\ UNCHANGED <<inputs, u, mem, ut, utp1, req_left,
                                     req_right, chan, step>>

\* the message MPI_Isend posts from staging slot `slot`
Message(side, slot, eager, k) ==
    [side |-> side, step |-> k, eager |-> eager,
     val |-> IF eager THEN slot ELSE Uninit]

\* the left-directed send posted from the wrong staging slot, &right_ghost[0]
IsendLeft_WrongSlot(r) ==
    /\ args.kernel = "parallel"
    /\ pc[r] = "isend_left"
    /\ chan' = [chan EXCEPT ![<<r, left_proc(r, args.size)>>] =
                  Append(@, Message("left", right_ghost[r][0], env.eager, step[r]))]
    /\ req_left' = [req_left EXCEPT ![r] =
                      IF env.eager THEN "complete" ELSE "pending"]
    /\ obs' = [obs EXCEPT ![r].nsend.left = @ + 1]
    /\ pc' = [pc EXCEPT ![r] = "isend_right"]
    /\ UNCHANGED <<inputs, u, mem, ut, utp1, left_ghost, right_ghost, req_right,
                   step>>

\* the left-directed send posted twice in a step
IsendLeft_Twice(r) ==
    /\ args.kernel = "parallel"
    /\ pc[r] = "isend_left"
    /\ chan' = [chan EXCEPT ![<<r, left_proc(r, args.size)>>] =
                  Append(Append(@, Message("left", left_ghost[r][0], env.eager, step[r])),
                         Message("left", left_ghost[r][0], env.eager, step[r]))]
    /\ req_left' = [req_left EXCEPT ![r] =
                      IF env.eager THEN "complete" ELSE "pending"]
    /\ obs' = [obs EXCEPT ![r].nsend.left = @ + 2]
    /\ pc' = [pc EXCEPT ![r] = "isend_right"]
    /\ UNCHANGED <<inputs, u, mem, ut, utp1, left_ghost, right_ghost, req_right,
                   step>>

\* MPI_Isend(&left_ghost[0], 1, MPI_DOUBLE, left_proc, 0, comm, &req_left);
IsendLeft(r) ==
    /\ args.kernel = "parallel"
    /\ pc[r] = "isend_left"
    /\ chan' = [chan EXCEPT ![<<r, left_proc(r, args.size)>>] =
                  Append(@, Message("left", left_ghost[r][0], env.eager, step[r]))]
    /\ req_left' = [req_left EXCEPT ![r] =
                      IF env.eager THEN "complete" ELSE "pending"]
    /\ obs' = [obs EXCEPT ![r].nsend.left = @ + 1]
    /\ pc' = [pc EXCEPT ![r] = "isend_right"]
    /\ UNCHANGED <<inputs, u, mem, ut, utp1, left_ghost, right_ghost, req_right,
                   step>>

\* the right-directed send followed at once by the receives: the interior
\* loop is left out
IsendRight_SkipInterior(r) ==
    /\ args.kernel = "parallel"
    /\ pc[r] = "isend_right"
    /\ chan' = [chan EXCEPT ![<<r, right_proc(r, args.size)>>] =
                  Append(@, Message("right", right_ghost[r][0], env.eager, step[r]))]
    /\ req_right' = [req_right EXCEPT ![r] =
                       IF env.eager THEN "complete" ELSE "pending"]
    /\ obs' = [obs EXCEPT ![r].nsend.right = @ + 1]
    /\ pc' = [pc EXCEPT ![r] = "recv_right"]
    /\ UNCHANGED <<inputs, u, mem, ut, utp1, left_ghost, right_ghost, req_left,
                   step>>

\* MPI_Isend(&right_ghost[0], 1, MPI_DOUBLE, right_proc, 0, comm, &req_right);
IsendRight(r) ==
    /\ args.kernel = "parallel"
    /\ pc[r] = "isend_right"
    /\ chan' = [chan EXCEPT ![<<r, right_proc(r, args.size)>>] =
                  Append(@, Message("right", right_ghost[r][0], env.eager, step[r]))]
    /\ req_right' = [req_right EXCEPT ![r] =
                       IF env.eager THEN "complete" ELSE "pending"]
    /\ obs' = [obs EXCEPT ![r].nsend.right = @ + 1]
    /\ pc' = [pc EXCEPT ![r] = "interior"]
    /\ UNCHANGED <<inputs, u, mem, ut, utp1, left_ghost, right_ghost, req_left,
                   step>>

ParallelInterior(r) == args.kernel = "parallel" /\ Interior(r, "recv_right")

\* the value a receive from `src` gets out of message m
Payload(m, src) ==
    IF m.eager THEN m.val
    ELSE IF m.side = "left" THEN left_ghost[src][0] ELSE right_ghost[src][0]

\* the matching receive completes the request of a rendezvous send
Matched(reqs, m, src, side) ==
    IF m.side = side /\ ~m.eager THEN [reqs EXCEPT ![src] = "complete"] ELSE reqs

\* the right edge closed without the receive, with whatever right_ghost[1] holds
RecvRight_NoRecv(r) ==
    /\ args.kernel = "parallel"
    /\ pc[r] = "recv_right"
    /\ \E g \in GarbageIf(IF right_ghost[r][1] = Uninit THEN {"uninit_read"} ELSE {}) :
         LET ghost == IF right_ghost[r][1] = Uninit THEN g ELSE right_ghost[r][1]
         IN  \E stores \in {ParallelEdgeN(Blank, View(r, ut[r], g), ghost, nu, Nx)} :
               /\ mem' = [mem EXCEPT ![r][utp1[r]].data = Overlay(@, stores)]
               /\ obs' = [obs EXCEPT ![r].wrote = Tally(@, Touched(stores))]
             /\ pc' = [pc EXCEPT ![r] = "recv_left"]
    /\ UNCHANGED <<inputs, u, ut, utp1, left_ghost, right_ghost, req_left,
                   req_right, chan, step>>

\* MPI_Recv(&right_ghost[1], 1, MPI_DOUBLE, right_proc, 0, comm, MPI_STATUS_IGNORE);
\* uktp1[Nx-1] = ukt[Nx-1] + nu*(ukt[Nx-2] - 2*ukt[Nx-1] + right_ghost[1]);
RecvRight(r) ==
    /\ args.kernel = "parallel"
    /\ pc[r] = "recv_right"
    /\ LET src == right_proc(r, args.size)
       IN  /\ chan[<<src, r>>] # <<>>
           /\ LET m == Head(chan[<<src, r>>])
                  faults == ReadFaults(r, ut[r], {SizeT(Nx-1), SizeT(Nx-2)})
                            \cup WriteFaults({SizeT(Nx-1)})
              IN  /\ chan' = [chan EXCEPT ![<<src, r>>] = Tail(@)]
                  /\ req_left' = Matched(req_left, m, src, "left")
                  /\ req_right' = Matched(req_right, m, src, "right")
                  /\ right_ghost' = [right_ghost EXCEPT ![r][1] = Payload(m, src)]
                  /\ \E g \in GarbageIf(faults), trap \in MayTrap(faults) :
                     \E stores \in {ParallelEdgeN(Blank, View(r, ut[r], g),
                                                  Payload(m, src), nu, Nx)} :
                       /\ mem' = [mem EXCEPT ![r][utp1[r]].data = Overlay(@, stores)]
                       /\ obs' = [obs EXCEPT ![r].fault = @ \cup faults,
                                             ![r].wrote = Tally(@, Touched(stores)),
                                             ![r].nrecv = @ + 1,
                                             ![r].rcvR = Append(@, [val |-> Payload(m, src),
                                                                    side |-> m.side,
                                                                    step |-> m.step])]
                       /\ pc' = [pc EXCEPT ![r] =
                                   IF trap THEN "crashed" ELSE "recv_left"]
    /\ UNCHANGED <<inputs, u, ut, utp1, left_ghost, step>>

\* the left edge closed without the receive, with whatever left_ghost[1] holds
RecvLeft_NoRecv(r) ==
    /\ args.kernel = "parallel"
    /\ pc[r] = "recv_left"
    /\ \E g \in GarbageIf(IF left_ghost[r][1] = Uninit THEN {"uninit_read"} ELSE {}) :
         LET ghost == IF left_ghost[r][1] = Uninit THEN g ELSE left_ghost[r][1]
         IN  \E stores \in {ParallelEdge0(Blank, View(r, ut[r], g), ghost, nu, Nx)} :
               /\ mem' = [mem EXCEPT ![r][utp1[r]].data = Overlay(@, stores)]
               /\ obs' = [obs EXCEPT ![r].wrote = Tally(@, Touched(stores)),
                                     ![r].closed = @ + 1]
             /\ pc' = [pc EXCEPT ![r] = "rotate"]
    /\ UNCHANGED <<inputs, u, ut, utp1, left_ghost, right_ghost, req_left,
                   req_right, chan, step>>

\* MPI_Recv(&left_ghost[1], 1, MPI_DOUBLE, left_proc, 0, comm, MPI_STATUS_IGNORE);
\* uktp1[0] = ukt[0] + nu*(left_ghost[1] - 2*ukt[0] + ukt[1]);
RecvLeft(r) ==
    /\ args.kernel = "parallel"
    /\ pc[r] = "recv_left"
    /\ LET src == left_proc(r, args.size)
       IN  /\ chan[<<src, r>>] # <<>>
           /\ LET m == Head(chan[<<src, r>>])
                  faults == ReadFaults(r, ut[r], {0, 1}) \cup WriteFaults({0})
              IN  /\ chan' = [chan EXCEPT ![<<src, r>>] = Tail(@)]
                  /\ req_left' = Matched(req_left, m, src, "left")
                  /\ req_right' = Matched(req_right, m, src, "right")
                  /\ left_ghost' = [left_ghost EXCEPT ![r][1] = Payload(m, src)]
                  /\ \E g \in GarbageIf(faults), trap \in MayTrap(faults) :
                     \E stores \in {ParallelEdge0(Blank, View(r, ut[r], g),
                                                  Payload(m, src), nu, Nx)} :
                       /\ mem' = [mem EXCEPT ![r][utp1[r]].data = Overlay(@, stores)]
                       /\ obs' = [obs EXCEPT ![r].fault = @ \cup faults,
                                             ![r].wrote = Tally(@, Touched(stores)),
                                             ![r].nrecv = @ + 1,
                                             ![r].rcvL = Append(@, [val |-> Payload(m, src),
                                                                    side |-> m.side,
                                                                    step |-> m.step]),
                                             ![r].closed = @ + 1]
                       /\ pc' = [pc EXCEPT ![r] =
                                   IF trap THEN "crashed" ELSE "rotate"]
    /\ UNCHANGED <<inputs, u, ut, utp1, right_ghost, step>>

\* the rotation with both MPI_Wait calls left out: the loop goes straight on
Rotate_NoWait(r) ==
    /\ args.kernel = "parallel"
    /\ pc[r] = "rotate"
    /\ Swap(r)
    /\ step' = [step EXCEPT ![r] = @ + 1]
    /\ obs' = [obs EXCEPT ![r].wrote = NoStores(@)]
    /\ pc' = [pc EXCEPT ![r] = LoopEntry(step[r] + 1, "sample")]
    /\ UNCHANGED <<inputs, u, mem, left_ghost, right_ghost, req_left, req_right,
                   chan>>

\* temp = ukt; ukt = uktp1; uktp1 = temp;
Rotate(r) ==
    /\ args.kernel = "parallel"
    /\ pc[r] = "rotate"
    /\ Swap(r)
    /\ obs' = [obs EXCEPT ![r].wrote = NoStores(@)]
    /\ pc' = [pc EXCEPT ![r] = "wait_left"]
    /\ UNCHANGED <<inputs, u, mem, left_ghost, right_ghost, req_left, req_right,
                   chan, step>>

\* MPI_Wait(&req_left, MPI_STATUS_IGNORE);
WaitLeft(r) ==
    /\ args.kernel = "parallel"
    /\ pc[r] = "wait_left"
    /\ req_left[r] = "complete"
    /\ req_left' = [req_left EXCEPT ![r] = "null"]
    /\ obs' = [obs EXCEPT ![r].nwait = @ + 1]
    /\ pc' = [pc EXCEPT ![r] = "wait_right"]
    /\ UNCHANGED <<inputs, u, mem, ut, utp1, left_ghost, right_ghost, req_right,
                   chan, step>>

\* MPI_Wait(&req_right, MPI_STATUS_IGNORE);  then ++step and the loop test
WaitRight(r) ==
    /\ args.kernel = "parallel"
    /\ pc[r] = "wait_right"
    /\ req_right[r] = "complete"
    /\ req_right' = [req_right EXCEPT ![r] = "null"]
    /\ obs' = [obs EXCEPT ![r].nwait = @ + 1]
    /\ step' = [step EXCEPT ![r] = @ + 1]
    /\ pc' = [pc EXCEPT ![r] = LoopEntry(step[r] + 1, "sample")]
    /\ UNCHANGED <<inputs, u, mem, ut, utp1, left_ghost, right_ghost, req_left,
                   chan>>

ParallelCopyOut(r) == args.kernel = "parallel" /\ CopyOut(r)

ParallelFree(r) == args.kernel = "parallel" /\ Free(r)

(***************************************************************************)
(* MPI calls that fail.  Under MPI_ERRORS_ARE_FATAL the library aborts the *)
(* job.  Otherwise the call returns an error code; heat_parallel ignores   *)
(* the value every MPI call returns and executes the next statement.       *)
(***************************************************************************)
\* the failure followed here is the first one of the job
NoneFailedYet == \A q \in Ranks : obs[q].mpifail = 0

\* MPI_Abort: no rank of the job executes another statement
Abort(r) ==
    /\ pc' = [q \in Ranks |-> "aborted"]
    /\ obs' = [obs EXCEPT ![r].mpifail = @ + 1]
    /\ UNCHANGED <<inputs, u, mem, ut, utp1, left_ghost, right_ghost, req_left,
                   req_right, chan, step>>

\* MPI_Isend fails: nothing is posted and the request is not set
IsendFail(r) ==
    /\ args.kernel = "parallel"
    /\ NoneFailedYet
    /\ pc[r] \in {"isend_left", "isend_right"}
    /\ IF env.errh = "fatal" THEN Abort(r)
       ELSE /\ pc' = [pc EXCEPT ![r] =
                        IF pc[r] = "isend_left" THEN "isend_right" ELSE "interior"]
            /\ obs' = [obs EXCEPT ![r].mpifail = @ + 1]
            /\ UNCHANGED <<inputs, u, mem, ut, utp1, left_ghost, right_ghost,
                           req_left, req_right, chan, step>>

\* MPI_Recv fails: the ghost cell is not written, the edge update that
\* follows reads whatever the cell holds
RecvFail(r) ==
    /\ args.kernel = "parallel"
    /\ NoneFailedYet
    /\ pc[r] \in {"recv_right", "recv_left"}
    /\ IF env.errh = "fatal" THEN Abort(r)
       ELSE LET right == pc[r] = "recv_right"
                cell == IF right THEN right_ghost[r][1] ELSE left_ghost[r][1]
                faults == IF cell = Uninit THEN {"uninit_read"} ELSE {}
            IN  \E g \in GarbageIf(faults) :
                  /\ mem' = [mem EXCEPT ![r][utp1[r]].data =
                               IF right
                               THEN ParallelEdgeN(@, View(r, ut[r], g),
                                                  IF cell = Uninit THEN g ELSE cell,
                                                  nu, Nx)
                               ELSE ParallelEdge0(@, View(r, ut[r], g),
                                                  IF cell = Uninit THEN g ELSE cell,
                                                  nu, Nx)]
                  /\ obs' = [obs EXCEPT ![r].mpifail = @ + 1,
                                        ![r].wrote =
                                           Tally(@, IF right THEN {SizeT(Nx - 1)}
                                                    ELSE {0}),
                                        ![r].fault = @ \cup faults,
                                        ![r].closed = IF right THEN @ ELSE @ + 1]
                  /\ pc' = [pc EXCEPT ![r] = IF right THEN "recv_left" ELSE "rotate"]
                  /\ UNCHANGED <<inputs, u, ut, utp1, left_ghost, right_ghost,
                                 req_left, req_right, chan, step>>

\* MPI_Wait fails (or is handed a request no send has set): it returns
WaitFail(r) ==
    /\ args.kernel = "parallel"
    /\ NoneFailedYet
    /\ pc[r] \in {"wait_left", "wait_right"}
    /\ IF env.errh = "fatal" THEN Abort(r)
       ELSE /\ obs' = [obs EXCEPT ![r].mpifail = @ + 1]
            /\ step' = [step EXCEPT ![r] = IF pc[r] = "wait_right" THEN @ + 1 ELSE @]
            /\ pc' = [pc EXCEPT ![r] =
                        IF pc[r] = "wait_left" THEN "wait_right"
                        ELSE LoopEntry(step[r] + 1, "sample")]
            /\ UNCHANGED <<inputs, u, mem, ut, utp1, left_ghost, right_ghost,
                           req_left, req_right, chan>>

NextSerial ==
    \/ SerialMalloc
    \/ SerialCopyIn
    \/ SerialInterior
    \/ SerialEdgeLeft
    \/ SerialEdgeRight
    \/ SerialSwap
    \/ SerialCopyOut
    \/ SerialFree

\* the statement rank r executes next, whichever it is
RankStep(r) ==
    \/ ParallelMalloc(r)
    \/ ParallelCopyIn(r)
    \/ Sample(r)
    \/ IsendLeft(r)
    \/ IsendRight(r)
    \/ ParallelInterior(r)
    \/ RecvRight(r)
    \/ RecvLeft(r)
    \/ Rotate(r)
    \/ WaitLeft(r)
    \/ WaitRight(r)
    \/ ParallelCopyOut(r)
    \/ ParallelFree(r)

Next ==
    \/ SerialMalloc
    \/ SerialCopyIn
    \/ SerialInterior
    \/ SerialEdgeLeft
    \/ SerialEdgeRight
    \/ SerialSwap
    \/ SerialCopyOut
    \/ SerialFree
    \/ \E r \in Ranks : ParallelMalloc(r)
    \/ \E r \in Ranks : ParallelCopyIn(r)
    \/ \E r \in Ranks : Sample(r)
    \/ \E r \in Ranks : IsendLeft(r)
    \/ \E r \in Ranks : IsendRight(r)
    \/ \E r \in Ranks : ParallelInterior(r)
    \/ \E r \in Ranks : RecvRight(r)
    \/ \E r \in Ranks : RecvLeft(r)
    \/ \E r \in Ranks : Rotate(r)
    \/ \E r \in Ranks : WaitLeft(r)
    \/ \E r \in Ranks : WaitRight(r)
    \/ \E r \in Ranks : ParallelCopyOut(r)
    \/ \E r \in Ranks : ParallelFree(r)

Spec == Init /\ [][Next]_vars

\* every rank is a process of its own that keeps executing while its next
\* statement can complete; the transport delivers what has been posted
Fairness ==
    /\ WF_vars(NextSerial)
    /\ \A r \in 0..(MaxP - 1) : WF_vars(r \in Ranks /\ RankStep(r))

FairSpec == Spec /\ Fairness

\* the kernels called on a constant field
SpecConstant == InitConstant /\ [][Next]_vars

\* heat_serial called on linear combinations
SpecLinear == InitLinear /\ [][NextSerial]_vars

\* heat_parallel alone
NextParallel ==
    \/ \E r \in Ranks : ParallelMalloc(r)
    \/ \E r \in Ranks : ParallelCopyIn(r)
    \/ \E r \in Ranks : Sample(r)
    \/ \E r \in Ranks : IsendLeft(r)
    \/ \E r \in Ranks : IsendRight(r)
    \/ \E r \in Ranks : ParallelInterior(r)
    \/ \E r \in Ranks : RecvRight(r)
    \/ \E r \in Ranks : RecvLeft(r)
    \/ \E r \in Ranks : Rotate(r)
    \/ \E r \in Ranks : WaitLeft(r)
    \/ \E r \in Ranks : WaitRight(r)
    \/ \E r \in Ranks : ParallelCopyOut(r)
    \/ \E r \in Ranks : ParallelFree(r)

\* heat_parallel over runs of up to MaxNt+1 steps
SpecLong == InitLong /\ [][NextParallel]_vars

\* the kernels called with invalid geometry
SpecGeometry == InitGeometry /\ [][Next]_vars

\* the kernels called when malloc may fail
SpecAlloc == InitAlloc /\ [][Next]_vars

\* heat_parallel over a transport whose calls may fail
NextTransport ==
    \/ \E r \in Ranks : ParallelMalloc(r)
    \/ \E r \in Ranks : ParallelCopyIn(r)
    \/ \E r \in Ranks : Sample(r)
    \/ \E r \in Ranks : IsendLeft(r)
    \/ \E r \in Ranks : IsendRight(r)
    \/ \E r \in Ranks : ParallelInterior(r)
    \/ \E r \in Ranks : RecvRight(r)
    \/ \E r \in Ranks : RecvLeft(r)
    \/ \E r \in Ranks : Rotate(r)
    \/ \E r \in Ranks : WaitLeft(r)
    \/ \E r \in Ranks : WaitRight(r)
    \/ \E r \in Ranks : ParallelCopyOut(r)
    \/ \E r \in Ranks : ParallelFree(r)
    \/ \E r \in Ranks : IsendFail(r)
    \/ \E r \in Ranks : RecvFail(r)
    \/ \E r \in Ranks : WaitFail(r)

SpecTransport == InitTransport /\ [][NextTransport]_vars

(***************************************************************************)
(* What the claims speak of.                                               *)
(***************************************************************************)
Serial == args.kernel = "serial"
Parallel == args.kernel = "parallel"

\* every rank has returned from the kernel
AllReturned == \A r \in Ranks : pc[r] = "done"

\* the caller's buffers, concatenated in rank order
Concatenation ==
    [i \in 0..(args.size * Nx - 1) |-> u[i \div Nx][i % Nx]]

\* the periodic three-point update, indices taken mod N
PeriodicUpdate(f, coef, N) ==
    [i \in 0..(N-1) |->
        RAdd(f[i], RMul(coef, RAdd(RSub(f[(i - 1) % N], RMul(Rat(2), f[i])),
                                   f[(i + 1) % N])))]

RECURSIVE Iterate(_, _, _, _)
Iterate(f, coef, N, k) ==
    IF k = 0 THEN f ELSE Iterate(PeriodicUpdate(f, coef, N), coef, N, k - 1)

(***************************************************************************)
(* C1: serial/parallel equivalence.  When every rank has returned from     *)
(* heat_parallel, the slices concatenated in rank order are exactly the    *)
(* field heat_serial returns on the global initial field, for every size   *)
(* >= 1 and under every interleaving of the ranks.                         *)
(***************************************************************************)
C1_SerialParallelEquivalence ==
    (Parallel /\ AllReturned) =>
        Concatenation = heat_serial(U, args.dx, args.size * Nx, args.dt, Nt)

\* two ranks, each the left and the right neighbour of the other, two steps
C1_Witness ==
    /\ Parallel /\ AllReturned
    /\ args.size = 2 /\ Nt = 2 /\ Nx = 3
    /\ Concatenation # U

(***************************************************************************)
(* C2: ghost matching.  The k-th right-ghost receive of rank r gets the    *)
(* value its right neighbour sampled from current[0] in its own k-th step, *)
(* carried by that neighbour's left-directed send of that step; the k-th   *)
(* left-ghost receive gets the left neighbour's k-th sample of             *)
(* current[Nx-1], carried by its right-directed send.                      *)
(***************************************************************************)
C2_GhostMatching ==
    Parallel =>
        \A r \in Ranks :
            /\ \A k \in 1..Len(obs[r].rcvR) :
                 LET n == right_proc(r, args.size)
                 IN  /\ k <= Len(obs[n].sampL)
                     /\ obs[r].rcvR[k] =
                          [val |-> obs[n].sampL[k], side |-> "left", step |-> k - 1]
            /\ \A k \in 1..Len(obs[r].rcvL) :
                 LET n == left_proc(r, args.size)
                 IN  /\ k <= Len(obs[n].sampR)
                     /\ obs[r].rcvL[k] =
                          [val |-> obs[n].sampR[k], side |-> "right", step |-> k - 1]

\* a rank that is its own neighbour has received both ghosts of its second step
C2_Witness ==
    /\ Parallel /\ args.size = 1
    /\ Len(obs[0].rcvR) = 2 /\ Len(obs[0].rcvL) = 2
    /\ obs[0].rcvR[2].val # obs[0].rcvL[2].val

(***************************************************************************)
(* C4: serial result.  When heat_serial returns, u holds the Nt-fold       *)
(* application of the periodic three-point update to the input, for odd    *)
(* and even Nt alike.                                                      *)
(***************************************************************************)
C4_SerialResult ==
    (Serial /\ pc[0] = "done") => u[0] = Iterate(U, nu, Nx, Nt)

\* scenario S2 of the specification: a single hot cell, two steps, nu = 1/4
C4_Witness ==
    /\ Serial /\ pc[0] = "done"
    /\ Nx = 5 /\ Nt = 2 /\ nu = <<1, 4>>
    /\ U = Impulse(5, 2, 1)
    /\ u[0] = [i \in 0..4 |->
                 CASE i = 0 -> <<1, 16>> [] i = 1 -> <<1, 4>> [] i = 2 -> <<3, 8>>
                   [] i = 3 -> <<1, 4>> [] i = 4 -> <<1, 16>>]

(***************************************************************************)
(* C5: zero-step identity.  With Nt = 0 neither kernel ever changes an     *)
(* element of the caller's buffer, and heat_parallel posts no send and     *)
(* performs no receive and no wait.                                        *)
(***************************************************************************)
C5_ZeroStepIdentity ==
    Nt = 0 =>
        \A r \in Ranks :
            /\ u[r] = Slice(U, r, Nx)
            /\ obs[r].nsend = [left |-> 0, right |-> 0]
            /\ obs[r].nrecv = 0
            /\ obs[r].nwait = 0
            /\ \A d \in Ranks : chan[<<r, d>>] = <<>>

\* three ranks have all returned from a zero-step call
C5_Witness ==
    /\ Nt = 0 /\ Parallel /\ args.size = 3 /\ AllReturned

(***************************************************************************)
(* C9: send-buffer stability.  While a send posted from a staging slot     *)
(* (left_ghost[0], right_ghost[0]) has not had its MPI_Wait completed, no  *)
(* statement writes that slot.                                             *)
(***************************************************************************)
InFlight(req) == req # "null"

C9_SendBufferStable ==
    [][\A r \in Ranks :
         /\ InFlight(req_left[r]) =>
              /\ obs'[r].wslot.left = obs[r].wslot.left
              /\ left_ghost'[r][0] = left_ghost[r][0]
         /\ InFlight(req_right[r]) =>
              /\ obs'[r].wslot.right = obs[r].wslot.right
              /\ right_ghost'[r][0] = right_ghost[r][0]]_vars

\* in its second step a rank has received both ghosts and rotated its buffers
\* while the neighbour has not yet received what it sent to the right
C9_Witness ==
    \E r \in Ranks :
        /\ step[r] = 1 /\ pc[r] = "wait_left"
        /\ req_right[r] = "pending"
        /\ obs[r].wslot.right = 2

C3_Termination ==
    /\ [](AllReturned \/ ENABLED Next)
    /\ <>[](AllReturned /\ \A r \in Ranks : step[r] = Nt)

\* three ranks using rendezvous sends have all returned after two steps
C3_Witness ==
    /\ Parallel /\ args.size = 3 /\ ~env.eager /\ Nt = 2
    /\ AllReturned
    /\ \A r \in Ranks : obs[r].closed = 2

(***************************************************************************)
(* C6: InvalidGeometry.  Called with Nx < 2 or with dx or dt not positive, *)
(* a kernel touches no element outside 0..Nx-1, leaves the caller's buffer *)
(* as it was, sends no message, and has reported InvalidGeometry when it   *)
(* returns.                                                                *)
(***************************************************************************)
InvalidGeometry == Nx < 2 \/ args.dx <= 0 \/ args.dt <= 0

C6_InvalidGeometryRejected ==
    InvalidGeometry =>
        \A r \in Ranks :
            /\ obs[r].fault \cap {"oob_read", "oob_write"} = {}
            /\ u[r] = Slice(U, r, Nx)
            /\ obs[r].nsend = [left |-> 0, right |-> 0]
            /\ pc[r] = "done" => obs[r].err = "InvalidGeometry"

(***************************************************************************)
(* C7: AllocationFailure.  When malloc has returned NULL for a scratch     *)
(* buffer of a rank, that rank never dereferences the NULL pointer, leaves *)
(* the caller's buffer as it was, and reports AllocationFailure when it    *)
(* stops.                                                                  *)
(***************************************************************************)
AllocationFailed(r) == pc[r] # "alloc" /\ (ut[r] = 0 \/ utp1[r] = 0)

C7_AllocationFailureReported ==
    \A r \in Ranks :
        AllocationFailed(r) =>
            /\ "null" \notin obs[r].fault
            /\ u[r] = Slice(U, r, Nx)
            /\ pc[r] \in {"done", "crashed"} => obs[r].err = "AllocationFailure"

(***************************************************************************)
(* C8: TransportFailure.  Once an MPI call of a rank has failed, the rank  *)
(* executes no further statement of the time-stepping loop: the job is     *)
(* aborted, or the kernel has stopped and reported TransportFailure.       *)
(***************************************************************************)
C8_TransportFailureReported ==
    \A r \in Ranks :
        obs[r].mpifail > 0 =>
            \/ pc[r] = "aborted"
            \/ obs[r].err = "TransportFailure"

(***************************************************************************)
(* The field between two steps.                                            *)
(***************************************************************************)
\* the buffer `current` of rank r (ut, ukt)
Current(r) == mem[r][ut[r]].data

\* rank r is between copy-in and free: `current` holds its slice
InKernel(r) ==
    pc[r] \notin {"alloc", "copy_in", "done", "crashed", "aborted"}

\* the steps rank r has finished: the rotation ends the step, the counter
\* of heat_parallel follows it after the two waits
Completed(r) ==
    step[r] + (IF pc[r] \in {"wait_left", "wait_right"} THEN 1 ELSE 0)

\* every rank holds its slice and all have finished the same step
SameStep ==
    /\ \A r \in Ranks : InKernel(r)
    /\ \A r, q \in Ranks : Completed(r) = Completed(q)

\* the slices `current` of all ranks, in rank order
GlobalNow ==
    [i \in 0..(args.size * Nx - 1) |-> Current(i \div Nx)[i % Nx]]

\* f[0] + ... + f[n-1]
RECURSIVE SumTo(_, _)
SumTo(f, n) == IF n = 0 THEN Rat(0) ELSE RAdd(SumTo(f, n - 1), f[n - 1])

(***************************************************************************)
(* C11: mass conservation.  Whenever heat_serial is between two steps, and *)
(* whenever all ranks of heat_parallel have finished the same step, the    *)
(* sum of the field over the whole periodic grid is the sum of the initial *)
(* field; so is the sum of what the kernels return.  This holds for every  *)
(* Nx >= 2, Nx = 2 with its empty interior loop included, and every nu.    *)
(***************************************************************************)
C11_MassConservation ==
    /\ SameStep =>
          SumTo(GlobalNow, args.size * Nx) = SumTo(U, args.size * Nx)
    /\ AllReturned =>
          SumTo(Concatenation, args.size * Nx) = SumTo(U, args.size * Nx)

\* heat_serial on two points has finished a step that changed both of them
C11_Witness ==
    /\ Serial /\ Nx = 2 /\ InKernel(0) /\ Completed(0) = 1
    /\ Current(0)[0] # U[0] /\ Current(0)[1] # U[1]
    /\ SumTo(GlobalNow, 2) = SumTo(U, 2)

(***************************************************************************)
(* C12: constant steady state.  If every grid point initially holds the    *)
(* same value c, then at every moment of either kernel the caller's        *)
(* buffer, the buffer `current` and every cell of `next` written so far    *)
(* hold c on every rank: after every step, whatever Nt, nu and Nx >= 2,    *)
(* every grid point still holds c.                                         *)
(***************************************************************************)
C12_ConstantSteadyState ==
    (\A i \in DOMAIN U : U[i] = U[0]) =>
        \A r \in Ranks :
            /\ \A i \in 0..(Nx - 1) : u[r][i] = U[0]
            /\ InKernel(r) => \A i \in 0..(Nx - 1) : Current(r)[i] = U[0]
            /\ \A h \in 1..2 : \A i \in DOMAIN mem[r][h].data :
                  mem[r][h].data[i] \in {Uninit, U[0]}

\* three ranks holding -1 everywhere have all finished their second step
\* with nu = 1/4
C12_Witness ==
    /\ Parallel /\ args.size = 3 /\ Nx = 3 /\ nu = <<1, 4>>
    /\ U = Constant(9, -1)
    /\ SameStep /\ \A r \in Ranks : Completed(r) = 2
    /\ GlobalNow = U

(***************************************************************************)
(* C13: linearity.  For scalars a, b and fields f, g of the same length,   *)
(* heat_serial called on a*f + b*g returns, cell by cell, a times what it  *)
(* returns on f plus b times what it returns on g (exact arithmetic).      *)
(***************************************************************************)
C13_Linearity ==
    (Serial /\ pc[0] = "done") =>
        u[0] = Combine(operands.a,
                       heat_serial(operands.f, args.dx, Nx, args.dt, Nt),
                       operands.b,
                       heat_serial(operands.g, args.dx, Nx, args.dt, Nt))

\* two steps on 2*squares - impulse: neither term vanishes, the field moved
C13_Witness ==
    /\ Serial /\ pc[0] = "done" /\ Nx = 3 /\ Nt = 2
    /\ operands = [a |-> 2, b |-> -1, f |-> Squares(3), g |-> Impulse(3, 1, 1)]
    /\ U = Combine(2, Squares(3), -1, Impulse(3, 1, 1))
    /\ u[0] # U

(***************************************************************************)
(* C14: per-step order.  In every step each rank samples both edges,       *)
(* posts the left-directed and then the right-directed send, computes all  *)
(* interior updates, receives the right ghost and closes next[Nx-1],       *)
(* receives the left ghost and closes next[0], rotates the buffers and     *)
(* waits on the left and then the right send handle, in exactly this       *)
(* order.  The interior updates are functions of `current` alone, and the  *)
(* edges of the next step are sampled only after both waits of this one.   *)
(***************************************************************************)
\* the statements of the loop body in the order of the claim
StepOrder ==
    <<"sample", "isend_left", "isend_right", "interior", "recv_right",
      "recv_left", "rotate", "wait_left", "wait_right">>

Position(p) == CHOOSE k \in 1..Len(StepOrder) : StepOrder[k] = p

InteriorCells == {i \in 0..(Nx - 1) : 1 <= i /\ i < Nx - 1}

C14_PerStepOrder ==
    [][Parallel =>
        \A r \in Ranks :
          LET o == obs[r]
              n == obs'[r]
          IN
          \* the statements follow one another in the order of the claim
          /\ (pc'[r] # pc[r] /\ pc[r] \in {StepOrder[k] : k \in 1..Len(StepOrder)}) =>
                IF pc[r] = "wait_right"
                THEN pc'[r] = (IF step'[r] < Nt THEN "sample" ELSE "copy_out")
                ELSE pc'[r] = StepOrder[Position(pc[r]) + 1]
          \* both edges are sampled together, after both waits of every
          \* earlier step
          /\ (Len(n.sampL) # Len(o.sampL) \/ Len(n.sampR) # Len(o.sampR)) =>
                /\ pc[r] = "sample"
                /\ Len(n.sampL) = step[r] + 1 /\ Len(n.sampR) = step[r] + 1
                /\ o.nwait = 2 * step[r]
                /\ req_left[r] = "null" /\ req_right[r] = "null"
          \* the left-directed send follows the sampling, the right-directed
          \* send follows the left-directed one
          /\ n.nsend.left # o.nsend.left =>
                /\ pc[r] = "isend_left"
                /\ Len(o.sampL) = step[r] + 1
                /\ o.nsend = [left |-> step[r], right |-> step[r]]
          /\ n.nsend.right # o.nsend.right =>
                /\ pc[r] = "isend_right"
                /\ o.nsend = [left |-> step[r] + 1, right |-> step[r]]
          \* the interior is computed after both sends and before any receive
          \* of the step, all of it at once, from `current` alone
          /\ (\E i \in InteriorCells : n.wrote[i] > o.wrote[i]) =>
                /\ pc[r] = "interior"
                /\ o.nsend = [left |-> step[r] + 1, right |-> step[r] + 1]
                /\ o.nrecv = 2 * step[r]
                /\ left_ghost'[r] = left_ghost[r] /\ right_ghost'[r] = right_ghost[r]
                /\ \A i \in InteriorCells :
                     /\ n.wrote[i] = 1
                     /\ mem'[r][utp1[r]].data[i] =
                          RAdd(Current(r)[i],
                               RMul(nu, RAdd(RSub(Current(r)[i-1],
                                                  RMul(Rat(2), Current(r)[i])),
                                             Current(r)[i+1])))
          \* the right ghost is received after the interior and closes
          \* next[Nx-1]; the left ghost is received after it and closes next[0]
          /\ Len(n.rcvR) # Len(o.rcvR) =>
                /\ pc[r] = "recv_right"
                /\ \A i \in InteriorCells : o.wrote[i] = 1
                /\ o.nrecv = 2 * step[r]
                /\ o.wrote[Nx - 1] = 0 /\ n.wrote[Nx - 1] = 1
          /\ Len(n.rcvL) # Len(o.rcvL) =>
                /\ pc[r] = "recv_left"
                /\ o.nrecv = 2 * step[r] + 1
                /\ o.wrote[Nx - 1] = 1
                /\ o.wrote[0] = 0 /\ n.wrote[0] = 1
          \* the rotation follows both edge updates and precedes both waits
          /\ (pc[r] # "alloc" /\ ut'[r] # ut[r]) =>
                /\ pc[r] = "rotate"
                /\ ut'[r] = utp1[r] /\ utp1'[r] = ut[r]
                /\ o.nrecv = 2 * step[r] + 2
                /\ o.nwait = 2 * step[r]
          \* the waits follow the rotation, the left handle first
          /\ n.nwait # o.nwait =>
                /\ pc[r] = (IF o.nwait = 2 * step[r] THEN "wait_left" ELSE "wait_right")
                /\ o.nwait \in {2 * step[r], 2 * step[r] + 1}
                /\ ut[r] = 1 + ((step[r] + 1) % 2)
                /\ step'[r] = (IF pc[r] = "wait_right" THEN step[r] + 1 ELSE step[r])
    ]_vars

\* a rank with a non-empty interior has sampled the edges of its second step
\* after both waits of the first
C14_Witness ==
    /\ Parallel /\ Nx = 3
    /\ \E r \in Ranks :
         /\ step[r] = 1 /\ pc[r] = "isend_left"
         /\ Len(obs[r].sampL) = 2 /\ obs[r].nwait = 2
         /\ obs[r].wrote = [i \in 0..2 |-> 0]

(***************************************************************************)
(* C15: no in-place aliasing.  From the allocation to the release,         *)
(* `current` and `next` are two distinct live allocations, neither of them *)
(* the caller's buffer.  A statement of the loop body leaves `current` and *)
(* the caller's buffer as they are, and what it stores into next[i] is the *)
(* update computed from the values `current` (and the ghosts) held before  *)
(* the statement.  No cell of `next` is stored to twice in a step, and     *)
(* when the buffers are rotated every cell 0..Nx-1 has been stored to      *)
(* exactly once.                                                           *)
(***************************************************************************)
\* the statements of the two loop bodies that compute cells of `next`
Updates == {"interior", "edge0", "edgeN", "recv_right", "recv_left"}

\* the neighbours of cell i of rank r as the update of next[i] reads them:
\* cells of `current`, and past its ends the periodic wrap (heat_serial) or
\* the ghost just received (heat_parallel)
LeftOf(r, i) ==
    IF i > 0 THEN Current(r)[i - 1]
    ELSE IF Serial THEN Current(r)[Nx - 1] ELSE left_ghost'[r][1]

RightOf(r, i) ==
    IF i < Nx - 1 THEN Current(r)[i + 1]
    ELSE IF Serial THEN Current(r)[0] ELSE right_ghost'[r][1]

C15_NoAliasing ==
    /\ [](\A r \in Ranks :
            /\ pc[r] \notin {"alloc", "done"} =>
                  /\ {ut[r], utp1[r]} = {1, 2}
                  /\ mem[r][ut[r]].st = "live" /\ mem[r][utp1[r]].st = "live"
            /\ \A i \in 0..(Nx - 1) : obs[r].wrote[i] <= 1
            /\ pc[r] = "rotate" => \A i \in 0..(Nx - 1) : obs[r].wrote[i] = 1)
    /\ [][\A r \in Ranks :
            (pc[r] \in Updates /\ pc'[r] # pc[r]) =>
                /\ u'[r] = u[r]
                /\ mem'[r][ut[r]] = mem[r][ut[r]]
                /\ ut'[r] = ut[r] /\ utp1'[r] = utp1[r]
                /\ \A i \in 0..(Nx - 1) :
                     IF obs'[r].wrote[i] > obs[r].wrote[i]
                     THEN mem'[r][utp1[r]].data[i] =
                            RAdd(Current(r)[i],
                                 RMul(nu, RAdd(RSub(LeftOf(r, i),
                                                    RMul(Rat(2), Current(r)[i])),
                                               RightOf(r, i))))
                     ELSE mem'[r][utp1[r]].data[i] = mem[r][utp1[r]].data[i]
       ]_vars

\* a rank is about to rotate at the end of its second step: `current` is the
\* second allocation, `next` the first, and all three cells are written
C15_Witness ==
    /\ Parallel /\ Nx = 3
    /\ \E r \in Ranks :
         /\ step[r] = 1 /\ pc[r] = "rotate"
         /\ ut[r] = 2 /\ utp1[r] = 1
         /\ obs[r].wrote = [i \in 0..2 |-> 1]
         /\ \A i \in 0..2 : mem[r][1].data[i] # Slice(U, r, 3)[i]

(***************************************************************************)
(* C16: scratch release.  When a kernel has returned, each of its two      *)
(* scratch allocations has been released exactly once, whichever pointer   *)
(* names it after Nt rotations.  No allocation is released before the      *)
(* result has been copied into the caller's buffer, none is released       *)
(* twice, and the caller's buffer holds the result, not released storage.  *)
(***************************************************************************)
C16_ScratchRelease ==
    \A r \in Ranks :
        /\ pc[r] = "done" =>
              /\ \A h \in 1..2 : mem[r][h].st = "freed" /\ mem[r][h].nfree = 1
              /\ step[r] = Nt
              /\ ut[r] = 1 + (Nt % 2)
        /\ \A h \in 1..2 :
              /\ mem[r][h].nfree <= 1
              /\ mem[r][h].st = "freed" =>
                    /\ pc[r] = "done"
                    /\ u[r] = mem[r][ut[r]].data
        /\ pc[r] = "free" =>
              /\ u[r] = Current(r)
              /\ \A h \in 1..2 : mem[r][h].st = "live"

\* two ranks have returned after one step: an odd number of rotations, so
\* ukt names the second allocation and uktp1 the first
C16_Witness ==
    /\ Parallel /\ args.size = 2 /\ Nt = 1 /\ AllReturned
    /\ \A r \in Ranks :
         /\ ut[r] = 2 /\ utp1[r] = 1
         /\ mem[r][1].nfree = 1 /\ mem[r][2].nfree = 1
         /\ u[r] # Slice(U, r, Nx)

(***************************************************************************)
(* C17: bounded step skew.  With two or more ranks, the numbers of steps   *)
(* two ring-adjacent ranks have completed never differ by more than one,   *)
(* whether a step is counted at the rotation or at the loop counter, and   *)
(* whether the sends are buffered (the waits return before the message is  *)
(* received) or not.                                                       *)
(***************************************************************************)
C17_BoundedSkew ==
    (Parallel /\ args.size >= 2) =>
        \A r \in Ranks :
            LET n == right_proc(r, args.size)
            IN  /\ Abs(step[r] - step[n]) <= 1
                /\ Abs(Completed(r) - Completed(n)) <= 1
                /\ Abs(obs[r].closed - obs[n].closed) <= 1

\* buffered sends: a rank has completed two steps and waited on all its sends
\* while its right neighbour, one step behind, has not yet received the
\* message of the second step
C17_Witness ==
    /\ Parallel /\ args.size = 3 /\ env.eager
    /\ \E r \in Ranks :
         LET n == right_proc(r, 3)
         IN  /\ step[r] = 2 /\ obs[r].nwait = 4
             /\ step[n] = 1
             /\ chan[<<r, n>>] # <<>> /\ Head(chan[<<r, n>>]).step = 1

(***************************************************************************)
(* C18: message accounting.  A rank never posts more than Nt sends in a    *)
(* direction nor completes more than 2*Nt receives, and when it returns it *)
(* has posted exactly 2*Nt sends and completed exactly 2*Nt receives.  At  *)
(* any time at most two of a rank's left-directed sends, and at most two   *)
(* of its right-directed sends, are posted and not yet received.  When all *)
(* ranks have returned no posted message remains unreceived.               *)
(***************************************************************************)
\* the sends of rank r in direction `side` posted and not yet received
Outstanding(r, side) ==
    LET dst == IF side = "left" THEN left_proc(r, args.size)
               ELSE right_proc(r, args.size)
        q == chan[<<r, dst>>]
    IN  Cardinality({k \in 1..Len(q) : q[k].side = side})

C18_MessageAccounting ==
    Parallel =>
        /\ \A r \in Ranks :
              /\ obs[r].nsend.left <= Nt /\ obs[r].nsend.right <= Nt
              /\ obs[r].nrecv <= 2 * Nt
              /\ pc[r] = "done" =>
                    /\ obs[r].nsend.left + obs[r].nsend.right = 2 * Nt
                    /\ obs[r].nrecv = 2 * Nt
              /\ Outstanding(r, "left") <= 2
              /\ Outstanding(r, "right") <= 2
        /\ AllReturned => \A p \in DOMAIN chan : chan[p] = <<>>

\* in a run of three steps a rank has two left-directed sends outstanding,
\* those of its second and third step
C18_Witness ==
    /\ Parallel /\ Nt = 3 /\ args.size = 3
    /\ \E r \in Ranks :
         /\ Outstanding(r, "left") = 2
         /\ obs[r].nsend.left = 3
         /\ Head(chan[<<r, left_proc(r, 3)>>]).step = 1

====
